---------------------------- MODULE Spec2Model ----------------------------
(***************************************************************************)
(* Model of Paper-Analyst (paper_analyst/main.py, document_loader.py,      *)
(* config.py): the document loader, the session state kept in              *)
(* st.session_state, and the chat turn with its token budget gate and its  *)
(* cancellable stream accumulation.                                        *)
(*                                                                         *)
(* Texts are TLA+ strings.  A TLA+ string holds ASCII only, so five ASCII  *)
(* characters that occur in none of the program's literals stand for the   *)
(* non-ASCII and control characters the code treats specially:             *)
(*     "@"  a printable non-ASCII character (every kana/kanji of a literal)*)
(*     "^"  U+0001, a control character (not printable, not whitespace)    *)
(*     "~"  U+0000 NUL                  (not printable, not whitespace)    *)
(*     "|"  U+2028 LINE SEPARATOR       (not printable, whitespace)        *)
(*     "$"  U+2029 PARAGRAPH SEPARATOR  (not printable, whitespace)        *)
(* A literal of the program is written with one "@" per non-ASCII          *)
(* character, which keeps its length and therefore its token count.        *)
(***************************************************************************)
EXTENDS Integers, Sequences, FiniteSets, TLC

(***************************************************************************)
(* Bounds of the model.                                                    *)
(***************************************************************************)
\* longest conversation history for which a new prompt is still submitted
MaxMessages == 4
\* number of session files uploaded before the uploader key counter is reset
MaxUploads == 2

(***************************************************************************)
(* Characters and strings (Python str).                                    *)
(***************************************************************************)
CharAt(s, i) == SubSeq(s, i, i)

\* str.isspace() for one character
isspace(ch) == ch \in {" ", "\n", "\t", "\r", "\f", "|", "$"}

\* str.isprintable() for one character
isprintable(ch) == ch \notin {"\n", "\t", "\r", "\f", "|", "$", "^", "~"}

(* The per-character operators below split the string in halves, which    *)
(* keeps the evaluation depth logarithmic in its length; the result is     *)
(* the left-to-right concatenation of the per-character results.  Each     *)
(* takes its result from a set built over the one value of its argument,   *)
(* so that the argument is evaluated once per call.                        *)
Half(s) == Len(s) \div 2

\* str.replace(old, new) where old is a single character
RECURSIVE replace(_, _, _)
replace(text, old, new) ==
    CHOOSE replaced \in
      { IF s = "" THEN ""
        ELSE IF Len(s) = 1 THEN (IF s = old THEN new ELSE s)
        ELSE replace(SubSeq(s, 1, Half(s)), old, new)
                 \o replace(SubSeq(s, Half(s) + 1, Len(s)), old, new)
        : s \in {text} } : TRUE

\* "".join(ch for ch in text if ch.isprintable() or ch.isspace())
RECURSIVE FilterPrintableOrSpace(_)
FilterPrintableOrSpace(text) ==
    CHOOSE kept \in
      { IF s = "" THEN ""
        ELSE IF Len(s) = 1 THEN (IF isprintable(s) \/ isspace(s) THEN s ELSE "")
        ELSE FilterPrintableOrSpace(SubSeq(s, 1, Half(s)))
                 \o FilterPrintableOrSpace(SubSeq(s, Half(s) + 1, Len(s)))
        : s \in {text} } : TRUE

\* str.strip(): drop leading and trailing whitespace
RECURSIVE lstrip(_)
lstrip(s) ==
    IF s # "" /\ isspace(CharAt(s, 1)) THEN lstrip(SubSeq(s, 2, Len(s))) ELSE s

RECURSIVE rstrip(_)
rstrip(s) ==
    IF s # "" /\ isspace(CharAt(s, Len(s)))
        THEN rstrip(SubSeq(s, 1, Len(s) - 1)) ELSE s

strip(s) == rstrip(lstrip(s))

\* str(n) for a natural number
Digit(d) == CharAt("0123456789", d + 1)

RECURSIVE str(_)
str(n) == IF n < 10 THEN Digit(n) ELSE str(n \div 10) \o Digit(n % 10)

\* sep.join(iterable); the iterable is evaluated once per call
RECURSIVE join(_, _)
join(sep, iterable) ==
    CHOOSE joined \in
      { IF parts = <<>> THEN ""
        ELSE IF Len(parts) = 1 THEN parts[1]
        ELSE parts[1] \o sep \o join(sep, Tail(parts))
        : parts \in {iterable} } : TRUE

\* t in s, for strings
Contains(s, t) ==
    \E i \in 1..(Len(s) - Len(t) + 1) : SubSeq(s, i, i + Len(t) - 1) = t


(***************************************************************************)
(* config.py: the attributes the module defines.  Reading an attribute     *)
(* that is not in DOMAIN config raises AttributeError.                     *)
(***************************************************************************)
config ==
    [ DOTENV_PATH   |-> "env/analyst.env",
      MAX_DOCUMENTS |-> 10,
      MODEL_NAMES_KEY |-> "MODEL_NAMES",
      AZURE_OPENAI_KEY_NAME |-> "AZURE_OPENAI_KEY",
      AZURE_OPENAI_ENDPOINT_NAME |-> "AZURE_OPENAI_ENDPOINT",
      AZURE_OPENAI_DEPLOYMENT_NAME |-> "AZURE_OPENAI_DEPLOYMENT",
      AZURE_OPENAI_API_VERSION_NAME |-> "AZURE_OPENAI_API_VERSION",
      SESSION_STATE_DEFAULTS |-> "SESSION_STATE_DEFAULTS",
      UITexts |-> "UITexts" ]

hasattr(module, name) == name \in DOMAIN module

(***************************************************************************)
(* document_loader.py                                                      *)
(***************************************************************************)
\* _sanitize_text
_sanitize_text(text) ==
    LET s1 == FilterPrintableOrSpace(text)
        s2 == replace(s1, "~", "")
        s3 == replace(s2, "|", "\n")
    IN  replace(s3, "$", "\n")

(* A directory entry.  opens: fitz.open / docx.Document / open() succeeds; *)
(* parts: the page texts of a PDF or the paragraph texts of a Word file;   *)
(* decoded: for a text file, per encoding, <<>> when decoding raises       *)
(* UnicodeDecodeError and <<text>> when it succeeds.                       *)
encodings_to_try == <<"utf-8", "cp932", "shift_jis", "euc_jp">>

NoDecode == [e \in {"utf-8", "cp932", "shift_jis", "euc_jp"} |-> <<>>]

RECURSIVE Concat(_)
Concat(parts) == IF parts = <<>> THEN "" ELSE parts[1] \o Concat(Tail(parts))

\* _read_pdf: (text, is_text_extracted)
_read_pdf(file) ==
    IF ~file.opens THEN <<"", FALSE>>
    ELSE LET text == Concat(file.parts)
         IN  <<strip(text), strip(text) # "">>

\* _read_docx
_read_docx(file) ==
    IF ~file.opens THEN "" ELSE strip(join("\n", file.parts))

\* _read_text: the first encoding that decodes wins
RECURSIVE ReadWithEncodings(_, _)
ReadWithEncodings(file, encs) ==
    IF encs = <<>> THEN ""
    ELSE IF ~file.opens THEN ""
    ELSE IF file.decoded[encs[1]] = <<>> THEN ReadWithEncodings(file, Tail(encs))
    ELSE strip(file.decoded[encs[1]][1])

_read_text(file) == ReadWithEncodings(file, encodings_to_try)

supported_extensions == {".pdf", ".docx", ".txt", ".md", ".csv"}

InvalidFolderWarning(folder_path) ==
    "@@@: @@@@@@@ '" \o folder_path \o "' @@@@@@@@@@@@@@@@"
ScannedImageWarning(name) ==
    "@@: '" \o name \o "' @@@@@@@@@@@@@@@@@@PDF@@@@@@@@@@"
SplitWarning(name) ==
    "@@: '" \o name \o "' @@@@@@@@@@@@@@@@@@@@@@@@@@@"
NoTextWarning(name) ==
    "@@: '" \o name \o "' @@@@@@@@@@@@@@@@@@@@@@@@@@@@@@@@@@@@@@@@@@@@@@@@@"
NothingFoundWarning == "@@@@@@@@@@@@@@@@@@@@@@@@@@@@@@@@@"

\* [s[i:i+limit] for i in range(0, len(s), limit)]
Chunks(s, limit) ==
    LET starts == {i \in 0..(Len(s) - 1) : i % limit = 0}
    IN  [k \in 1..Cardinality(starts) |->
            SubSeq(s, (k - 1) * limit + 1,
                   IF k * limit < Len(s) THEN k * limit ELSE Len(s))]

\* the documents appended for one file whose sanitized content is s
SplitDocuments(name, s, limit) ==
    IF Len(s) > limit
        THEN [i \in 1..Len(Chunks(s, limit)) |->
                 [filename |-> name \o " (Part " \o str(i) \o ")",
                  content  |-> Chunks(s, limit)[i]]]
        ELSE << [filename |-> name, content |-> s] >>

\* the loop body with a plain else in place of elif st_size > 0
ProcessFile_NoSizeTest(file, acc) ==
    IF ~(file.is_file /\ file.suffix \in supported_extensions) THEN acc
    ELSE
      LET pdf      == _read_pdf(file)
          content  == IF file.suffix = ".pdf" THEN pdf[1]
                      ELSE IF file.suffix = ".docx" THEN _read_docx(file)
                      ELSE _read_text(file)
          w1 == IF file.suffix = ".pdf" /\ ~pdf[2] /\ file.st_size > 0
                    THEN Append(acc.warnings, ScannedImageWarning(file.name))
                    ELSE acc.warnings
      IN  IF content # ""
            THEN LET sanitized_content == _sanitize_text(content)
                 IN  IF ~hasattr(config, "MAX_DOCUMENT_CHARS")
                       THEN [acc EXCEPT !.raised = "AttributeError",
                                        !.warnings = w1]
                       ELSE LET limit == config["MAX_DOCUMENT_CHARS"]
                            IN [acc EXCEPT
                                 !.documents = acc.documents \o
                                     SplitDocuments(file.name, sanitized_content, limit),
                                 !.warnings =
                                     IF Len(sanitized_content) > limit
                                       THEN Append(w1, SplitWarning(file.name))
                                       ELSE w1]
            ELSE [acc EXCEPT !.warnings = Append(w1, NoTextWarning(file.name))]

(* One iteration of the for loop of load_documents over the entry `file`, *)
(* from the accumulated (documents, warnings).  raised is "" or the name   *)
(* of the exception that leaves load_documents.                            *)
ProcessFile(file, acc) ==
    IF ~(file.is_file /\ file.suffix \in supported_extensions) THEN acc
    ELSE
      LET pdf      == _read_pdf(file)
          content  == IF file.suffix = ".pdf" THEN pdf[1]
                      ELSE IF file.suffix = ".docx" THEN _read_docx(file)
                      ELSE _read_text(file)
          w1 == IF file.suffix = ".pdf" /\ ~pdf[2] /\ file.st_size > 0
                    THEN Append(acc.warnings, ScannedImageWarning(file.name))
                    ELSE acc.warnings
      IN  IF content # ""
            THEN LET sanitized_content == _sanitize_text(content)
                 IN  IF ~hasattr(config, "MAX_DOCUMENT_CHARS")
                       THEN [acc EXCEPT !.raised = "AttributeError",
                                        !.warnings = w1]
                       ELSE LET limit == config["MAX_DOCUMENT_CHARS"]
                            IN [acc EXCEPT
                                 !.documents = acc.documents \o
                                     SplitDocuments(file.name, sanitized_content, limit),
                                 !.warnings =
                                     IF Len(sanitized_content) > limit
                                       THEN Append(w1, SplitWarning(file.name))
                                       ELSE w1]
            ELSE IF file.st_size > 0
                   THEN [acc EXCEPT !.warnings = Append(w1, NoTextWarning(file.name))]
                   ELSE [acc EXCEPT !.warnings = w1]

RECURSIVE IterDir(_, _)
IterDir(files, acc) ==
    IF files = <<>> \/ acc.raised # "" THEN acc
    ELSE IterDir(Tail(files), ProcessFile(files[1], acc))

\* the 'nothing found' warning added whenever no document was created
load_documents_IgnoresWarnings(fs, folder_path) ==
    IF folder_path \notin DOMAIN fs
      THEN [raised |-> "", documents |-> <<>>,
            warnings |-> <<InvalidFolderWarning(folder_path)>>]
      ELSE LET r == IterDir(fs[folder_path],
                            [raised |-> "", documents |-> <<>>, warnings |-> <<>>])
           IN  IF r.raised # "" THEN r
               ELSE IF r.documents = <<>>
                 THEN [r EXCEPT !.warnings = Append(r.warnings, NothingFoundWarning)]
                 ELSE r

(* load_documents(folder_path) on the file system fs, a function from the  *)
(* paths that are directories to their listing in iterdir() order.         *)
load_documents(fs, folder_path) ==
    IF folder_path \notin DOMAIN fs
      THEN [raised |-> "", documents |-> <<>>,
            warnings |-> <<InvalidFolderWarning(folder_path)>>]
      ELSE LET r == IterDir(fs[folder_path],
                            [raised |-> "", documents |-> <<>>, warnings |-> <<>>])
           IN  IF r.raised # "" THEN r
               ELSE IF r.documents = <<>> /\ r.warnings = <<>>
                 THEN [r EXCEPT !.warnings = <<NothingFoundWarning>>]
                 ELSE r

(***************************************************************************)
(* main.py: token counting and context assembly.                           *)
(***************************************************************************)
\* tiktoken's encoding.encode, abstracted to one token per character
encode(string) == [i \in 1..Len(string) |-> CharAt(string, i)]

\* get_token_count; tiktoken_ok = FALSE is the run where tiktoken raises
get_token_count(string, tiktoken_ok) ==
    IF tiktoken_ok THEN Len(encode(string)) ELSE Len(string) \div 4

\* json.dumps of a str with ensure_ascii=True
JsonEscapeChar(ch) ==
    CASE ch = "\"" -> "\\\""
      [] ch = "\\" -> "\\\\"
      [] ch = "\n" -> "\\n"
      [] ch = "\t" -> "\\t"
      [] ch = "\r" -> "\\r"
      [] ch = "\f" -> "\\f"
      [] ch = "@"  -> "\\u8cea"
      [] ch = "^"  -> "\\u0001"
      [] ch = "~"  -> "\\u0000"
      [] ch = "|"  -> "\\u2028"
      [] ch = "$"  -> "\\u2029"
      [] OTHER     -> ch

RECURSIVE JsonEscape(_)
JsonEscape(text) ==
    CHOOSE escaped \in
      { IF s = "" THEN ""
        ELSE IF Len(s) = 1 THEN JsonEscapeChar(s)
        ELSE JsonEscape(SubSeq(s, 1, Half(s)))
                 \o JsonEscape(SubSeq(s, Half(s) + 1, Len(s)))
        : s \in {text} } : TRUE

JsonMessage(msg) ==
    "{\"role\": \"" \o JsonEscape(msg.role) \o "\", \"content\": \""
        \o JsonEscape(msg.content) \o "\"}"

\* json.dumps(messages_for_api)
json_dumps(msgs) ==
    "[" \o join(", ", [i \in 1..Len(msgs) |-> JsonMessage(msgs[i])]) \o "]"

\* the context_texts list built by the loop over loaded_documents
RECURSIVE ContextTexts(_, _, _)
ContextTexts(docs, selected, i) ==
    IF i > Len(docs) THEN <<>>
    ELSE (IF docs[i].filename \in selected
            THEN << "### @@@@ (Canvas-" \o str(i) \o ": " \o docs[i].filename
                        \o ")\n" \o docs[i].content >>
            ELSE <<>>)
         \o ContextTexts(docs, selected, i + 1)

contextual_prompt(docs, selected, last_user_message) ==
    join("\n\n---\n\n", ContextTexts(docs, selected, 1)) \o "\n\n---\n\n"
        \o "@@@@@@@@@@@@@@@@@@@@@@@@@@@\n\n"
        \o "@@: " \o last_user_message

\* the assembly on the stored dicts themselves (no msg.copy())
ContextAssembly_NoCopy(msgs, docs, selected) ==
    [ for_api |-> [msgs EXCEPT ![Len(msgs)].content =
                      contextual_prompt(docs, selected, msgs[Len(msgs)].content)],
      stored  |-> [msgs EXCEPT ![Len(msgs)].content =
                      contextual_prompt(docs, selected, msgs[Len(msgs)].content)] ]

(* Context assembly: messages_for_api is a list of copies of the stored    *)
(* messages whose last content is replaced; stored is what                 *)
(* st.session_state.messages holds afterwards.                             *)
ContextAssembly(msgs, docs, selected) ==
    [ for_api |-> [msgs EXCEPT ![Len(msgs)].content =
                      contextual_prompt(docs, selected, msgs[Len(msgs)].content)],
      stored  |-> msgs ]

\* the ValueError text of the budget gate
TokenBudgetExceeded(count, model_name, max_input_tokens) ==
    "@@@@@@@ (" \o str(count) \o ") @@@@@@@@@@ (" \o model_name \o ") @@@@ ("
        \o str(max_input_tokens) \o ") @@@@@@@@@@@@@@@@@@@@@@@@@@@@"

\* config.UITexts.GENERATION_STOPPED_WARNING
GENERATION_STOPPED_WARNING == "@@@@@@@@@@@@@@@@@@@@@@"
\* config.UITexts.SESSION_FORMAT_ERROR
SESSION_FORMAT_ERROR == "@@@@@@@JSON@@@@@@@@@"
\* config.UITexts.SESSION_LOAD_ERROR, formatted
SESSION_LOAD_ERROR == "JSON @@@@@@@@@@@@: e"
\* the text of the generic API error
RemoteCallFailure == "API@@@@@@@@@@@@@@@: e"
\* config.UITexts.MAX_DOCS_WARNING.format(max_docs=...)
MAX_DOCS_WARNING(max_docs) ==
    "@@@@@@@ (" \o str(max_docs) \o "@) @@@@@@@@@@" \o str(max_docs) \o "@@@@@@@@@@@@"

\* lines 273-278: the cap applied to what the loader returned
RetainDocuments(docs, warnings) ==
    IF Len(docs) > config.MAX_DOCUMENTS
      THEN [loaded_documents |-> SubSeq(docs, 1, config.MAX_DOCUMENTS),
            load_warnings    |-> Append(warnings, MAX_DOCS_WARNING(config.MAX_DOCUMENTS))]
      ELSE [loaded_documents |-> docs, load_warnings |-> warnings]

(***************************************************************************)
(* The environment: file system, env file, uploaded files, user inputs,    *)
(* remote streams.                                                         *)
(***************************************************************************)
None == <<>>
Some(v) == <<v>>

TextFile(name, suffix, text) ==
    [name |-> name, suffix |-> suffix, is_file |-> TRUE, st_size |-> Len(text),
     opens |-> TRUE, parts |-> <<>>,
     decoded |-> [NoDecode EXCEPT !["utf-8"] = Some(text)]]

\* a PDF of scanned pages: it opens, every page has an empty text layer
ImageOnlyPdf(name) ==
    [name |-> name, suffix |-> ".pdf", is_file |-> TRUE, st_size |-> 7,
     opens |-> TRUE, parts |-> <<"", "\n">>, decoded |-> NoDecode]

\* a Word file that docx.Document cannot open
CorruptDocx(name) ==
    [name |-> name, suffix |-> ".docx", is_file |-> TRUE, st_size |-> 5,
     opens |-> FALSE, parts |-> <<>>, decoded |-> NoDecode]

SubDirectory(name) ==
    [name |-> name, suffix |-> "", is_file |-> FALSE, st_size |-> 0,
     opens |-> FALSE, parts |-> <<>>, decoded |-> NoDecode]

\* the directories of the file system, each with its iterdir() listing
FileSystem ==
    [ paper |-> << TextFile("a.txt", ".txt", "abc") >>,
      empty |-> << >>,
      scan  |-> << ImageOnlyPdf("scan.pdf") >>,
      zero  |-> << TextFile("zero.txt", ".txt", "") >>,
      mixed |-> << TextFile("notes.xyz", ".xyz", "skip"), SubDirectory("sub"),
                   CorruptDocx("bad.docx"), TextFile("blank.md", ".md", " \n") >>,
      ctrl  |-> << TextFile("c.txt", ".txt", "a^b~c"), TextFile("n.txt", ".txt", "^") >>,
      many  |-> [i \in 1..(config.MAX_DOCUMENTS + 1) |->
                    TextFile("f" \o str(i) \o ".txt", ".txt", "t" \o str(i))] ]

FolderPaths == DOMAIN FileSystem \cup {"nodir"}

\* MODEL_NAMES of the env file, and <prefix>_MAX_INPUT_TOKENS per model
model_names == <<"GPT4.1", "o4-mini">>

MAX_INPUT_TOKENS == [m \in {"GPT4.1", "o4-mini"} |->
                        IF m = "GPT4.1" THEN 400 ELSE 261]

\* a model whose env entries are all present
Configured(model) == model # None /\ model[1] \in DOMAIN MAX_INPUT_TOKENS

SystemPrompts == {"S"}
Prompts == {"q", "qq"}

Doc(filename, content) == [filename |-> filename, content |-> content]
Msg(role, content) == [role |-> role, content |-> content]
Usage(i, o, t) == [input_tokens |-> i, output_tokens |-> o, total_tokens |-> t]

\* chunks of a stream of the remote client
Delta(text) == [choices |-> TRUE, content |-> Some(text)]
DeltaNone   == [choices |-> TRUE, content |-> None]
NoChoices   == [choices |-> FALSE, content |-> None]

Streams ==
    { << Delta("Hel"), Delta("lo"), Delta("!") >>,
      << NoChoices, Delta(""), DeltaNone >>,
      << >> }

(* Uploaded session files.  parses: json.load succeeds; data: the JSON     *)
(* object, a function from its keys.                                       *)
SavedDocs == << Doc("a.txt", "D1"), Doc("b.txt", "D2") >>

SessionFile(data) == [parses |-> TRUE, data |-> data]

FullSnapshot ==
    [ messages |-> << Msg("system", "S"), Msg("user", "q"), Msg("assistant", "Hi") >>,
      loaded_documents |-> SavedDocs,
      selected_model |-> "GPT4.1",
      total_usage |-> Usage(261, 2, 263),
      load_warnings |-> << SplitWarning("a.txt") >> ]

MinimalSnapshot ==
    [ messages |-> << Msg("system", "S") >>,
      loaded_documents |-> << Doc("a.txt", "D1") >>,
      selected_model |-> "o4-mini" ]

\* a snapshot of the documented shape whose usage fields do not add up
SkewedSnapshot ==
    [ messages |-> << Msg("system", "S") >>,
      loaded_documents |-> << >>,
      selected_model |-> "GPT4.1",
      total_usage |-> Usage(1, 1, 3) ]

\* a snapshot that names a model the env file does not configure
ForeignSnapshot ==
    [ messages |-> << >>, loaded_documents |-> SavedDocs, selected_model |-> "other" ]

Without(data, key) == [k \in DOMAIN data \ {key} |-> data[k]]

UploadedFiles ==
    { SessionFile(FullSnapshot), SessionFile(MinimalSnapshot),
      SessionFile(SkewedSnapshot), SessionFile(ForeignSnapshot),
      SessionFile(Without(FullSnapshot, "selected_model")),
      SessionFile(Without(FullSnapshot, "messages")),
      SessionFile(Without(MinimalSnapshot, "loaded_documents")),
      [parses |-> FALSE, data |-> << >>] }

(***************************************************************************)
(* State.  The first group is st.session_state; an absent key or a Python  *)
(* None is None (<<>>), a present value v is Some(v).  The second group is *)
(* the position of the script and the locals of the chat turn of run_app.  *)
(*   pc         "render": a script run is due (session start, st.rerun());  *)
(*              "idle": the run has ended and the page waits for the user; *)
(*              "streaming": the run is inside the loop over the stream    *)
(*   stream, pos  the chunks the remote call yields and how many of them   *)
(*              the loop has taken                                         *)
(*   api_calls  the message lists passed to client.chat.completions.create *)
(*              since the last prompt was submitted                        *)
(*   reports    what the last script run showed with st.error, st.warning  *)
(*              or as an uncaught exception                                *)
(*   outcome    how the last chat turn resolved                            *)
(*   usage_log  history variable: total_usage as the last reset or restore *)
(*              left it (base) and the usage_info of every turn committed  *)
(*              since (turns)                                              *)
(***************************************************************************)
VARIABLES app_status, selected_model, folder_path, loaded_documents,
          load_warnings, messages, system_role_defined, total_usage,
          is_generating, stop_generation, last_usage_info, selected_docs,
          uploader_key_counter,
          pc, full_response, input_tokens, stream, pos, api_calls, reports,
          outcome, usage_log

session == <<app_status, selected_model, folder_path, loaded_documents,
             load_warnings, messages, system_role_defined, total_usage,
             is_generating, stop_generation, last_usage_info, selected_docs,
             uploader_key_counter>>

turn == <<full_response, input_tokens, stream, pos, api_calls, outcome,
          usage_log>>

vars == <<session, pc, turn, reports>>

\* config.SESSION_STATE_DEFAULTS
SESSION_STATE_DEFAULTS ==
    [ app_status |-> "INITIAL",
      selected_model |-> None,
      folder_path |-> "paper",
      loaded_documents |-> << >>,
      load_warnings |-> << >>,
      messages |-> << >>,
      system_role_defined |-> FALSE,
      total_usage |-> Usage(0, 0, 0),
      is_generating |-> FALSE,
      stop_generation |-> FALSE,
      last_usage_info |-> None ]

\* st.session_state without the uploader key counter, as one record
SessionRecord ==
    [ app_status |-> app_status,
      selected_model |-> selected_model,
      folder_path |-> folder_path,
      loaded_documents |-> loaded_documents,
      load_warnings |-> load_warnings,
      messages |-> messages,
      system_role_defined |-> system_role_defined,
      total_usage |-> total_usage,
      is_generating |-> is_generating,
      stop_generation |-> stop_generation,
      last_usage_info |-> last_usage_info,
      selected_docs |-> selected_docs ]

SetSession(r) ==
    /\ app_status' = r.app_status
    /\ selected_model' = r.selected_model
    /\ folder_path' = r.folder_path
    /\ loaded_documents' = r.loaded_documents
    /\ load_warnings' = r.load_warnings
    /\ messages' = r.messages
    /\ system_role_defined' = r.system_role_defined
    /\ total_usage' = r.total_usage
    /\ is_generating' = r.is_generating
    /\ stop_generation' = r.stop_generation
    /\ last_usage_info' = r.last_usage_info
    /\ selected_docs' = r.selected_docs

(* The session after every key was deleted and initialize_session_state    *)
(* ran: the defaults, selected_docs absent.                                *)
ClearedSession ==
    [ app_status |-> SESSION_STATE_DEFAULTS.app_status,
      selected_model |-> SESSION_STATE_DEFAULTS.selected_model,
      folder_path |-> SESSION_STATE_DEFAULTS.folder_path,
      loaded_documents |-> SESSION_STATE_DEFAULTS.loaded_documents,
      load_warnings |-> SESSION_STATE_DEFAULTS.load_warnings,
      messages |-> SESSION_STATE_DEFAULTS.messages,
      system_role_defined |-> SESSION_STATE_DEFAULTS.system_role_defined,
      total_usage |-> SESSION_STATE_DEFAULTS.total_usage,
      is_generating |-> SESSION_STATE_DEFAULTS.is_generating,
      stop_generation |-> SESSION_STATE_DEFAULTS.stop_generation,
      last_usage_info |-> SESSION_STATE_DEFAULTS.last_usage_info,
      selected_docs |-> None ]

Init ==
    /\ app_status = SESSION_STATE_DEFAULTS.app_status
    /\ selected_model = SESSION_STATE_DEFAULTS.selected_model
    /\ folder_path = SESSION_STATE_DEFAULTS.folder_path
    /\ loaded_documents = SESSION_STATE_DEFAULTS.loaded_documents
    /\ load_warnings = SESSION_STATE_DEFAULTS.load_warnings
    /\ messages = SESSION_STATE_DEFAULTS.messages
    /\ system_role_defined = SESSION_STATE_DEFAULTS.system_role_defined
    /\ total_usage = SESSION_STATE_DEFAULTS.total_usage
    /\ is_generating = SESSION_STATE_DEFAULTS.is_generating
    /\ stop_generation = SESSION_STATE_DEFAULTS.stop_generation
    /\ last_usage_info = SESSION_STATE_DEFAULTS.last_usage_info
    /\ selected_docs = None
    /\ uploader_key_counter = 0
    /\ pc = "render"
    /\ full_response = ""
    /\ input_tokens = 0
    /\ stream = << >>
    /\ pos = 0
    /\ api_calls = << >>
    /\ reports = << >>
    /\ outcome = "none"
    /\ usage_log = [base |-> SESSION_STATE_DEFAULTS.total_usage, turns |-> << >>]

\* the locals of a chat turn are gone once another run starts
TurnLocalsCleared ==
    /\ full_response' = ""
    /\ input_tokens' = 0
    /\ stream' = << >>
    /\ pos' = 0
    /\ api_calls' = << >>
    /\ outcome' = "none"

Error(text)   == [kind |-> "error", text |-> text]
Warning(text) == [kind |-> "warning", text |-> text]
Uncaught(exc) == [kind |-> "exception", text |-> exc]

\* the chat interface is rendered by a run in this state
ChatRendered ==
    /\ app_status = "READY"
    /\ Configured(selected_model)
    /\ system_role_defined

(***************************************************************************)
(* Script runs without a user event (pc = "render").                       *)
(***************************************************************************)
(* INITIAL: render_initial_setup; the selectbox stores a model name.       *)
RunInitialSetup ==
    /\ pc = "render"
    /\ app_status = "INITIAL"
    /\ selected_model' =
         IF selected_model # None
              /\ \E i \in 1..Len(model_names) : model_names[i] = selected_model[1]
           THEN selected_model
           ELSE Some(model_names[1])
    /\ pc' = "idle"
    /\ reports' = << >>
    /\ UNCHANGED <<app_status, folder_path, loaded_documents, load_warnings,
                   messages, system_role_defined, total_usage, is_generating,
                   stop_generation, last_usage_info, selected_docs,
                   uploader_key_counter, turn>>

(* LOADING: the load pass and the retention cap, then st.rerun().  An      *)
(* exception of load_documents leaves run_app; the session keeps its keys. *)
LoadPass ==
    /\ pc = "render"
    /\ app_status = "LOADING"
    /\ LET r == load_documents(FileSystem, folder_path)
       IN  IF r.raised # ""
             THEN /\ reports' = << Uncaught(r.raised) >>
                  /\ pc' = "idle"
                  /\ UNCHANGED <<loaded_documents, load_warnings, app_status>>
             ELSE /\ loaded_documents' =
                        RetainDocuments(r.documents, r.warnings).loaded_documents
                  /\ load_warnings' =
                        RetainDocuments(r.documents, r.warnings).load_warnings
                  /\ app_status' = "READY"
                  /\ reports' = << >>
                  /\ pc' = "render"
    /\ UNCHANGED <<selected_model, folder_path, messages, system_role_defined,
                   total_usage, is_generating, stop_generation, last_usage_info,
                   selected_docs, uploader_key_counter, turn>>

(* READY with an incomplete env entry for the model (st.stop()), or before *)
(* the system role is defined (render_system_prompt_setup).                *)
RunReadyNoChat ==
    /\ pc = "render"
    /\ app_status = "READY"
    /\ ~ChatRendered
    /\ pc' = "idle"
    /\ reports' = IF Configured(selected_model) THEN << >>
                  ELSE << Error("MODEL_CONFIG_ERROR") >>
    /\ UNCHANGED <<session, turn>>

(* READY: render_chat_interface, no turn to run.  The first render stores  *)
(* every document's filename as the selection.                             *)
AllFilenames(docs) == {docs[i].filename : i \in 1..Len(docs)}

RunChatInterface ==
    /\ pc = "render"
    /\ ChatRendered
    /\ ~is_generating
    /\ selected_docs' = IF selected_docs = None
                          THEN Some(AllFilenames(loaded_documents))
                          ELSE selected_docs
    /\ pc' = "idle"
    /\ reports' = << >>
    /\ TurnLocalsCleared
    /\ UNCHANGED <<app_status, selected_model, folder_path, loaded_documents,
                   load_warnings, messages, system_role_defined, total_usage,
                   is_generating, stop_generation, last_usage_info,
                   uploader_key_counter, usage_log>>

(***************************************************************************)
(* The chat turn (run_app, is_generating branch).                          *)
(***************************************************************************)
UsageInfo(in_tokens, out_tokens) ==
    Usage(in_tokens, out_tokens, in_tokens + out_tokens)

\* the session total_tokens grown by the output count only
AddUsage_Miscount(total, usage_info) ==
    [ input_tokens  |-> total.input_tokens + usage_info.input_tokens,
      output_tokens |-> total.output_tokens + usage_info.output_tokens,
      total_tokens  |-> total.total_tokens + usage_info.output_tokens ]

\* the three += on st.session_state.total_usage
AddUsage(total, usage_info) ==
    [ input_tokens  |-> total.input_tokens + usage_info.input_tokens,
      output_tokens |-> total.output_tokens + usage_info.output_tokens,
      total_tokens  |-> total.total_tokens + usage_info.total_tokens ]

\* the commit without the test of full_response
Commits_Always(response) == TRUE

\* if full_response: a non-empty response is committed
Commits(response) == response # ""

\* the finally block without the reset of is_generating
Finally_KeepsGenerating(msgs, response, in_tokens, tiktoken_ok) ==
    /\ is_generating' = is_generating
    /\ stop_generation' = FALSE
    /\ IF Commits(response)
         THEN LET usage_info ==
                    UsageInfo(in_tokens, get_token_count(response, tiktoken_ok))
              IN  /\ messages' = Append(msgs, Msg("assistant", response))
                  /\ last_usage_info' = Some(usage_info)
                  /\ total_usage' = AddUsage(total_usage, usage_info)
                  /\ usage_log' = [usage_log EXCEPT
                                     !.turns = Append(usage_log.turns, usage_info)]
         ELSE /\ messages' = msgs
              /\ UNCHANGED <<last_usage_info, total_usage, usage_log>>
    /\ pc' = "render"
    /\ UNCHANGED <<app_status, selected_model, folder_path, loaded_documents,
                   load_warnings, system_role_defined, selected_docs,
                   uploader_key_counter>>

\* the finally block without the reset of stop_generation
Finally_KeepsStopFlag(msgs, response, in_tokens, tiktoken_ok) ==
    /\ is_generating' = FALSE
    /\ stop_generation' = stop_generation
    /\ IF Commits(response)
         THEN LET usage_info ==
                    UsageInfo(in_tokens, get_token_count(response, tiktoken_ok))
              IN  /\ messages' = Append(msgs, Msg("assistant", response))
                  /\ last_usage_info' = Some(usage_info)
                  /\ total_usage' = AddUsage(total_usage, usage_info)
                  /\ usage_log' = [usage_log EXCEPT
                                     !.turns = Append(usage_log.turns, usage_info)]
         ELSE /\ messages' = msgs
              /\ UNCHANGED <<last_usage_info, total_usage, usage_log>>
    /\ pc' = "render"
    /\ UNCHANGED <<app_status, selected_model, folder_path, loaded_documents,
                   load_warnings, system_role_defined, selected_docs,
                   uploader_key_counter>>

(* The finally block: the flags are cleared, a non-empty response is       *)
(* appended to msgs (the stored history) and counted, then st.rerun().     *)
Finally(msgs, response, in_tokens, tiktoken_ok) ==
    /\ is_generating' = FALSE
    /\ stop_generation' = FALSE
    /\ IF Commits(response)
         THEN LET usage_info ==
                    UsageInfo(in_tokens, get_token_count(response, tiktoken_ok))
              IN  /\ messages' = Append(msgs, Msg("assistant", response))
                  /\ last_usage_info' = Some(usage_info)
                  /\ total_usage' = AddUsage(total_usage, usage_info)
                  /\ usage_log' = [usage_log EXCEPT
                                     !.turns = Append(usage_log.turns, usage_info)]
         ELSE /\ messages' = msgs
              /\ UNCHANGED <<last_usage_info, total_usage, usage_log>>
    /\ pc' = "render"
    /\ UNCHANGED <<app_status, selected_model, folder_path, loaded_documents,
                   load_warnings, system_role_defined, selected_docs,
                   uploader_key_counter>>

\* the selection the assembly reads: st.session_state.get('selected_docs', [])
CurrentSelection == IF selected_docs = None THEN {} ELSE selected_docs[1]

Assembled == ContextAssembly(messages, loaded_documents, CurrentSelection)

\* the gate with >= in place of >
OverBudget_Inclusive(count, max_input_tokens) == count >= max_input_tokens

\* if input_tokens > max_input_tokens
OverBudget(count, max_input_tokens) == count > max_input_tokens

TurnDue ==
    /\ pc = "render"
    /\ ChatRendered
    /\ is_generating

(* The three ways the try block can go up to the loop.  Each binds the     *)
(* assembled lists and messages_json_string once, then the outcome of the  *)
(* tokenizer and input_tokens.                                             *)
(* The budget gate raises ValueError: reported, nothing sent.              *)
TurnBudgetExceeded ==
    /\ TurnDue
    /\ outcome' = "BudgetExceeded"
    /\ full_response' = ""
    /\ UNCHANGED <<stream, pos, api_calls>>
    /\ \E assembled \in {Assembled} :
       \E messages_json_string \in {json_dumps(assembled.for_api)} :
       \E tiktoken_ok \in BOOLEAN :
       \E count \in {get_token_count(messages_json_string, tiktoken_ok)} :
         LET max_input_tokens == MAX_INPUT_TOKENS[selected_model[1]]
         IN  /\ OverBudget(count, max_input_tokens)
             /\ reports' = << Error(TokenBudgetExceeded(count, selected_model[1],
                                                        max_input_tokens)) >>
             /\ input_tokens' = count
             /\ Finally(assembled.stored, "", count, tiktoken_ok)

(* client.chat.completions.create raises before any chunk.                 *)
TurnCallFails ==
    /\ TurnDue
    /\ outcome' = "Failed"
    /\ full_response' = ""
    /\ reports' = << Error(RemoteCallFailure) >>
    /\ UNCHANGED <<stream, pos>>
    /\ \E assembled \in {Assembled} :
       \E messages_json_string \in {json_dumps(assembled.for_api)} :
       \E tiktoken_ok \in BOOLEAN :
       \E count \in {get_token_count(messages_json_string, tiktoken_ok)} :
         /\ ~OverBudget(count, MAX_INPUT_TOKENS[selected_model[1]])
         /\ api_calls' = Append(api_calls, assembled.for_api)
         /\ input_tokens' = count
         /\ Finally(assembled.stored, "", count, tiktoken_ok)

(* client.chat.completions.create returns a stream; the loop is entered.   *)
TurnStartStream ==
    /\ TurnDue
    /\ pc' = "streaming"
    /\ full_response' = ""
    /\ pos' = 0
    /\ reports' = << >>
    /\ UNCHANGED <<app_status, selected_model, folder_path, loaded_documents,
                   load_warnings, system_role_defined, total_usage, is_generating,
                   stop_generation, last_usage_info, selected_docs,
                   uploader_key_counter, outcome, usage_log>>
    /\ \E chunks \in Streams : stream' = chunks
    /\ \E assembled \in {Assembled} :
       \E messages_json_string \in {json_dumps(assembled.for_api)} :
       \E tiktoken_ok \in BOOLEAN :
       \E count \in {get_token_count(messages_json_string, tiktoken_ok)} :
         /\ ~OverBudget(count, MAX_INPUT_TOKENS[selected_model[1]])
         /\ api_calls' = Append(api_calls, assembled.for_api)
         /\ messages' = assembled.stored
         /\ input_tokens' = count

\* the loop body with = in place of +=
Accumulate_Overwrite(response, chunk) ==
    IF chunk.choices /\ chunk.content # None
      THEN chunk.content[1]
      ELSE response

\* full_response after the loop body handled chunk
Accumulate(response, chunk) ==
    IF chunk.choices /\ chunk.content # None
      THEN response \o chunk.content[1]
      ELSE response

(* One iteration of the loop with stop_generation false.                   *)
StreamChunk ==
    /\ pc = "streaming"
    /\ pos < Len(stream)
    /\ ~stop_generation
    /\ pos' = pos + 1
    /\ full_response' = Accumulate(full_response, stream[pos + 1])
    /\ UNCHANGED <<session, pc, input_tokens, stream, api_calls, reports, outcome,
                   usage_log>>

\* the flag examined after the chunk was accumulated
StreamCancelled_AfterAccumulate ==
    /\ pc = "streaming"
    /\ pos < Len(stream)
    /\ stop_generation
    /\ pos' = pos + 1
    /\ full_response' = Accumulate(full_response, stream[pos + 1])
    /\ reports' = Append(reports, Warning(GENERATION_STOPPED_WARNING))
    /\ outcome' = "Cancelled"
    /\ \E tiktoken_ok \in BOOLEAN :
         Finally(messages, Accumulate(full_response, stream[pos + 1]),
                 input_tokens, tiktoken_ok)
    /\ UNCHANGED <<input_tokens, stream, api_calls>>

(* One iteration of the loop with stop_generation true: warning, break.    *)
StreamCancelled ==
    /\ pc = "streaming"
    /\ pos < Len(stream)
    /\ stop_generation
    /\ pos' = pos + 1
    /\ reports' = Append(reports, Warning(GENERATION_STOPPED_WARNING))
    /\ outcome' = "Cancelled"
    /\ \E tiktoken_ok \in BOOLEAN :
         Finally(messages, full_response, input_tokens, tiktoken_ok)
    /\ UNCHANGED <<full_response, input_tokens, stream, api_calls>>

(* The stream is exhausted: the loop ends.                                 *)
StreamExhausted ==
    /\ pc = "streaming"
    /\ pos = Len(stream)
    /\ outcome' = "Completed"
    /\ \E tiktoken_ok \in BOOLEAN :
         Finally(messages, full_response, input_tokens, tiktoken_ok)
    /\ UNCHANGED <<full_response, input_tokens, stream, pos, api_calls, reports>>

\* the failure path with the partial response dropped before the commit
StreamFails_Discards ==
    /\ pc = "streaming"
    /\ reports' = Append(reports, Error(RemoteCallFailure))
    /\ outcome' = "Failed"
    /\ full_response' = ""
    /\ \E tiktoken_ok \in BOOLEAN :
         Finally(messages, "", input_tokens, tiktoken_ok)
    /\ UNCHANGED <<input_tokens, stream, pos, api_calls>>

(* Taking the next chunk raises (API or connection error).                 *)
StreamFails ==
    /\ pc = "streaming"
    /\ reports' = Append(reports, Error(RemoteCallFailure))
    /\ outcome' = "Failed"
    /\ \E tiktoken_ok \in BOOLEAN :
         Finally(messages, full_response, input_tokens, tiktoken_ok)
    /\ UNCHANGED <<full_response, input_tokens, stream, pos, api_calls>>

(* The stop button, shown while is_generating: the flag the loop reads     *)
(* between chunks.                                                         *)
StopButton ==
    /\ pc = "streaming"
    /\ is_generating
    /\ ~stop_generation
    /\ stop_generation' = TRUE
    /\ UNCHANGED <<app_status, selected_model, folder_path, loaded_documents,
                   load_warnings, messages, system_role_defined, total_usage,
                   is_generating, last_usage_info, selected_docs,
                   uploader_key_counter, pc, turn, reports>>

(***************************************************************************)
(* Session restore and reset.                                              *)
(***************************************************************************)
required_keys == {"messages", "loaded_documents", "selected_model"}

\* dict.get(key, default)
Get(data, key, default) == IF key \in DOMAIN data THEN data[key] ELSE default

\* the restore with _clear_session_for_load ahead of the required-keys test
load_session_from_file_ClearsFirst(cur, uploaded_file) ==
    IF ~uploaded_file.parses
      THEN [session |-> cur, report |-> Error(SESSION_LOAD_ERROR)]
    ELSE LET session_data == uploaded_file.data
         IN  IF ~(required_keys \subseteq DOMAIN session_data)
               THEN [session |-> ClearedSession, report |-> Error(SESSION_FORMAT_ERROR)]
               ELSE [session |->
                        [ClearedSession EXCEPT
                           !.messages = session_data.messages,
                           !.loaded_documents = session_data.loaded_documents,
                           !.selected_model = Some(session_data.selected_model),
                           !.total_usage = Get(session_data, "total_usage",
                                               SESSION_STATE_DEFAULTS.total_usage),
                           !.load_warnings = Get(session_data, "load_warnings", << >>),
                           !.app_status = "READY",
                           !.system_role_defined = TRUE],
                     report |-> [kind |-> "success", text |-> "SESSION_LOADED_SUCCESS"]]

(* load_session_from_file on the session cur: the session it leaves and    *)
(* what it reports.                                                        *)
load_session_from_file(cur, uploaded_file) ==
    IF ~uploaded_file.parses
      THEN [session |-> cur, report |-> Error(SESSION_LOAD_ERROR)]
    ELSE LET session_data == uploaded_file.data
         IN  IF ~(required_keys \subseteq DOMAIN session_data)
               THEN [session |-> cur, report |-> Error(SESSION_FORMAT_ERROR)]
               ELSE [session |->
                        [ClearedSession EXCEPT
                           !.messages = session_data.messages,
                           !.loaded_documents = session_data.loaded_documents,
                           !.selected_model = Some(session_data.selected_model),
                           !.total_usage = Get(session_data, "total_usage",
                                               SESSION_STATE_DEFAULTS.total_usage),
                           !.load_warnings = Get(session_data, "load_warnings", << >>),
                           !.app_status = "READY",
                           !.system_role_defined = TRUE],
                     report |-> [kind |-> "success", text |-> "SESSION_LOADED_SUCCESS"]]

(***************************************************************************)
(* User events: the run that handles the widget's new value.  The sidebar  *)
(* and the chat input are on the page while it waits (pc = "idle") and     *)
(* while the turn streams (pc = "streaming"); the reset button, the file   *)
(* uploader and the chat input are passed disabled=is_generating.          *)
(***************************************************************************)
\* no widget is ever disabled
disabled_Never(generating) == FALSE

\* disabled=st.session_state.is_generating
disabled(generating) == generating

\* the page the widgets are on is displayed
PageShown == pc \in {"idle", "streaming"}

(* The session file uploader: on_upload_change, then lines 258-265.        *)
UploadSession ==
    /\ PageShown
    /\ ~disabled(is_generating)
    /\ uploader_key_counter < MaxUploads
    /\ \E uploaded_file \in UploadedFiles :
         LET r == load_session_from_file(SessionRecord, uploaded_file)
         IN  /\ SetSession(r.session)
             /\ reports' = << r.report >>
             /\ usage_log' = IF r.report.kind = "error" THEN usage_log
                             ELSE [base |-> r.session.total_usage, turns |-> << >>]
    /\ uploader_key_counter' = uploader_key_counter + 1
    /\ pc' = "render"
    /\ TurnLocalsCleared

(* The reset button: reset_session.                                        *)
ResetSession ==
    /\ PageShown
    /\ ~disabled(is_generating)
    /\ SetSession(ClearedSession)
    /\ uploader_key_counter' = 0
    /\ pc' = "render"
    /\ reports' = << >>
    /\ TurnLocalsCleared
    /\ usage_log' = [base |-> ClearedSession.total_usage, turns |-> << >>]

(* The model selectbox and the folder text input of the initial screen.    *)
ChooseModel ==
    /\ pc = "idle"
    /\ app_status = "INITIAL"
    /\ \E i \in 1..Len(model_names) :
         /\ selected_model # Some(model_names[i])
         /\ selected_model' = Some(model_names[i])
    /\ reports' = << >>
    /\ UNCHANGED <<app_status, folder_path, loaded_documents, load_warnings,
                   messages, system_role_defined, total_usage, is_generating,
                   stop_generation, last_usage_info, selected_docs,
                   uploader_key_counter, pc, turn>>

EnterFolder ==
    /\ pc = "idle"
    /\ app_status = "INITIAL"
    /\ \E path \in FolderPaths :
         /\ path # folder_path
         /\ folder_path' = path
    /\ reports' = << >>
    /\ UNCHANGED <<app_status, selected_model, loaded_documents, load_warnings,
                   messages, system_role_defined, total_usage, is_generating,
                   stop_generation, last_usage_info, selected_docs,
                   uploader_key_counter, pc, turn>>

(* The load button.                                                        *)
ClickLoad ==
    /\ pc = "idle"
    /\ app_status = "INITIAL"
    /\ app_status' = "LOADING"
    /\ pc' = "render"
    /\ reports' = << >>
    /\ UNCHANGED <<selected_model, folder_path, loaded_documents, load_warnings,
                   messages, system_role_defined, total_usage, is_generating,
                   stop_generation, last_usage_info, selected_docs,
                   uploader_key_counter, turn>>

(* The start-chat button of render_system_prompt_setup.                    *)
ClickStartChat ==
    /\ pc = "idle"
    /\ app_status = "READY"
    /\ Configured(selected_model)
    /\ ~system_role_defined
    /\ \E system_prompt_input \in SystemPrompts :
         messages' = << Msg("system", system_prompt_input) >>
    /\ system_role_defined' = TRUE
    /\ pc' = "render"
    /\ reports' = << >>
    /\ UNCHANGED <<app_status, selected_model, folder_path, loaded_documents,
                   load_warnings, total_usage, is_generating, stop_generation,
                   last_usage_info, selected_docs, uploader_key_counter, turn>>

(* The context multiselect.                                                *)
SelectDocuments ==
    /\ pc = "idle"
    /\ ChatRendered
    /\ ~is_generating
    /\ \E selection \in SUBSET AllFilenames(loaded_documents) :
         /\ selected_docs # Some(selection)
         /\ selected_docs' = Some(selection)
    /\ reports' = << >>
    /\ UNCHANGED <<app_status, selected_model, folder_path, loaded_documents,
                   load_warnings, messages, system_role_defined, total_usage,
                   is_generating, stop_generation, last_usage_info,
                   uploader_key_counter, pc, turn>>

(* The chat input: a prompt is submitted.                                  *)
SubmitPrompt ==
    /\ PageShown
    /\ ChatRendered
    /\ ~disabled(is_generating)
    /\ Len(messages) < MaxMessages
    /\ \E prompt \in Prompts :
         messages' = Append(messages, Msg("user", prompt))
    /\ is_generating' = TRUE
    /\ stop_generation' = FALSE
    /\ last_usage_info' = None
    /\ pc' = "render"
    /\ reports' = << >>
    /\ TurnLocalsCleared
    /\ UNCHANGED <<app_status, selected_model, folder_path, loaded_documents,
                   load_warnings, system_role_defined, total_usage, selected_docs,
                   uploader_key_counter, usage_log>>

Next ==
    \/ RunInitialSetup
    \/ LoadPass
    \/ RunReadyNoChat
    \/ RunChatInterface
    \/ TurnBudgetExceeded
    \/ TurnCallFails
    \/ TurnStartStream
    \/ StreamChunk
    \/ StreamCancelled
    \/ StreamExhausted
    \/ StreamFails
    \/ StopButton
    \/ UploadSession
    \/ ResetSession
    \/ ChooseModel
    \/ EnterFolder
    \/ ClickLoad
    \/ ClickStartChat
    \/ SelectDocuments
    \/ SubmitPrompt

Spec == Init /\ [][Next]_vars

(* A script run goes on until it ends: the run that is due starts, the     *)
(* turn reaches its try block, and the loop over the stream takes its next *)
(* step (a chunk, the end of the stream, or an exception).                 *)
Fairness ==
    /\ WF_vars(RunChatInterface)
    /\ WF_vars(TurnBudgetExceeded \/ TurnCallFails \/ TurnStartStream)
    /\ WF_vars(StreamChunk \/ StreamCancelled \/ StreamExhausted \/ StreamFails)

LiveSpec == Spec /\ Fairness

(***************************************************************************)
(* Properties.                                                             *)
(***************************************************************************)
Last(seq) == seq[Len(seq)]

\* the ceiling of the model the turn runs with
Ceiling == MAX_INPUT_TOKENS[selected_model[1]]

\* the step that resolves a chat turn (the finally block runs)
TurnResolves == is_generating /\ ~is_generating'

HasReport(log, report) == \E i \in 1..Len(log) : log[i] = report

(* C1: Token budget gate.  In the step that computes the token count of    *)
(* the outgoing message list, a count above the ceiling of the selected    *)
(* model ends the turn with the TokenBudgetExceeded error and without a    *)
(* call of the remote client; a count at or below the ceiling is not       *)
(* rejected and the client is called with the list that was counted.  A    *)
(* turn that ended as BudgetExceeded has made no call.                     *)
C1_BudgetGate ==
    [][ /\ outcome' = "BudgetExceeded" => api_calls' = << >>
        /\ TurnDue =>
             /\ input_tokens' > Ceiling =>
                  /\ outcome' = "BudgetExceeded"
                  /\ api_calls' = << >>
                  /\ reports' = << Error(TokenBudgetExceeded(input_tokens',
                                            selected_model[1], Ceiling)) >>
                  /\ ~is_generating'
             /\ input_tokens' <= Ceiling =>
                  /\ outcome' # "BudgetExceeded"
                  /\ Len(api_calls') = 1
                  /\ \E ok \in BOOLEAN, serialized \in {json_dumps(api_calls'[1])} :
                       input_tokens' = get_token_count(serialized, ok)
      ]_vars

\* a turn was rejected with a count of exactly ceiling + 1
C1_Witness ==
    /\ outcome = "BudgetExceeded"
    /\ input_tokens = Ceiling + 1
    /\ api_calls = << >>
    /\ ~is_generating

\* the text fragments the loop has accumulated from the first n chunks
RECURSIVE Fragments(_, _)
Fragments(chunks, n) ==
    IF n = 0 THEN << >>
    ELSE Fragments(chunks, n - 1) \o
           (IF chunks[n].choices /\ chunks[n].content # None
              THEN << chunks[n].content[1] >> ELSE << >>)

\* the step in which the loop sees the cancellation flag after k >= 1 fragments
CancelledAfterFragments ==
    /\ pc = "streaming"
    /\ outcome' = "Cancelled"
    /\ Len(Fragments(stream, pos)) >= 1

CancellationCommitted ==
    /\ full_response' = Concat(Fragments(stream, pos))
    /\ HasReport(reports', Warning(GENERATION_STOPPED_WARNING))
    /\ messages' = Append(messages, Msg("assistant", Concat(Fragments(stream, pos))))

(* C2 as stated: whenever the flag is seen after fragments f1..fk, k >= 1, *)
(* the response f1..fk is committed, the cancellation is reported and one  *)
(* assistant message with that content is appended.                        *)
C2_Original == [][ CancelledAfterFragments => CancellationCommitted ]_vars

(* C2 amended: the same, for fragments whose concatenation is not empty.   *)
C2_CancellationCommit ==
    [][ (CancelledAfterFragments /\ Concat(Fragments(stream, pos)) # "")
          => CancellationCommitted ]_vars

\* "Hel", "lo", then the flag is seen at the third chunk
C2_Witness ==
    /\ outcome = "Cancelled"
    /\ pos = 3
    /\ Fragments(stream, 2) = << "Hel", "lo" >>
    /\ full_response = "Hello"
    /\ Last(messages) = Msg("assistant", "Hello")
    /\ HasReport(reports, Warning(GENERATION_STOPPED_WARNING))

\* the text load_documents works on for a directory entry, "" if none
ExtractedText(file) ==
    IF ~(file.is_file /\ file.suffix \in supported_extensions) THEN ""
    ELSE IF file.suffix = ".pdf" THEN _read_pdf(file)[1]
    ELSE IF file.suffix = ".docx" THEN _read_docx(file)
    ELSE _read_text(file)

\* the documents of docs that come from the directory entry name
DocumentsOf(docs, name) ==
    SelectSeq(docs, LAMBDA d : \/ d.filename = name
                              \/ \E i \in 1..Len(docs) :
                                   d.filename = name \o " (Part " \o str(i) \o ")")

Contents(docs) == [i \in 1..Len(docs) |-> docs[i].content]

(* C3: Chunking.  Whatever the chunk limit, a load pass returns, for every *)
(* file with extracted text, at least one document, named after the file   *)
(* (a single document) or after the file and its 1-based part index, and   *)
(* the contents of these documents in order concatenate to the sanitized   *)
(* text.                                                                   *)
C3_Chunking ==
    (app_status = "LOADING" /\ folder_path \in DOMAIN FileSystem) =>
        LET r == load_documents(FileSystem, folder_path)
            listing == FileSystem[folder_path]
        IN  /\ r.raised = ""
            /\ \A i \in 1..Len(listing) :
                 ExtractedText(listing[i]) # "" =>
                   LET parts == DocumentsOf(r.documents, listing[i].name)
                   IN  /\ Len(parts) >= 1
                       /\ Concat(Contents(parts)) = _sanitize_text(ExtractedText(listing[i]))
                       /\ \/ parts = << Doc(listing[i].name,
                                            _sanitize_text(ExtractedText(listing[i]))) >>
                          \/ \A k \in 1..Len(parts) :
                               parts[k].filename =
                                 listing[i].name \o " (Part " \o str(k) \o ")"

(* C4: Usage invariant.  total_tokens of the session total is the sum of   *)
(* its input_tokens and output_tokens in every state.                      *)
C4_UsageInvariant ==
    total_usage.total_tokens = total_usage.input_tokens + total_usage.output_tokens

RECURSIVE SumField(_, _)
SumField(usages, field) ==
    IF usages = << >> THEN 0
    ELSE usages[1][field] + SumField(Tail(usages), field)

UsageFields == {"input_tokens", "output_tokens", "total_tokens"}

(* C5: Usage accumulation.  A turn that commits a non-empty response with  *)
(* input count I (the count the gate computed) and output count O (the     *)
(* count of the response) records (I, O, I+O) as the turn's usage and adds *)
(* exactly that to the session totals; the totals are what the last reset  *)
(* or restore left plus the sums over the turns committed since; and no    *)
(* step other than a reset or a restore decreases a total.                 *)
C5_UsageAccumulation ==
    /\ [][ (TurnResolves /\ full_response' # "") =>
             \E ok \in BOOLEAN :
               LET I == input_tokens'
                   O == get_token_count(full_response', ok)
               IN  /\ last_usage_info' = Some(Usage(I, O, I + O))
                   /\ total_usage'.input_tokens = total_usage.input_tokens + I
                   /\ total_usage'.output_tokens = total_usage.output_tokens + O
                   /\ total_usage'.total_tokens = total_usage.total_tokens + I + O
         ]_vars
    /\ [][ \A f \in UsageFields :
             total_usage'[f] = usage_log'.base[f] + SumField(usage_log'.turns, f) ]_vars
    /\ [][ (\E f \in UsageFields : total_usage'[f] < total_usage[f]) =>
             (pc = "idle" /\ usage_log' = [base |-> total_usage', turns |-> << >>])
         ]_vars

\* two turns were committed in one session and both are in the totals
C5_Witness ==
    /\ Len(usage_log.turns) = 2
    /\ usage_log.turns[1].input_tokens > 0
    /\ usage_log.turns[2].output_tokens > 0
    /\ total_usage.total_tokens =
         usage_log.turns[1].total_tokens + usage_log.turns[2].total_tokens

\* the snapshot lacks a required field
LacksRequired(file) ==
    /\ file.parses
    /\ \E key \in {"messages", "loaded_documents", "selected_model"} :
         key \notin DOMAIN file.data

FailedRestoreKeeps(after) ==
    /\ after.messages = messages
    /\ after.loaded_documents = loaded_documents
    /\ after.selected_model = selected_model
    /\ after.total_usage = total_usage
    /\ after.load_warnings = load_warnings

(* C6: Restore failure leaves state untouched.  Where a session file can   *)
(* be uploaded, restoring any snapshot that lacks a required field reports *)
(* the format error and returns the session's messages, documents, model,  *)
(* usage totals and warnings as they were; and the step that reports the   *)
(* format error changes none of them.                                      *)
C6_RestoreFailure ==
    [][ /\ (pc = "idle" /\ ~is_generating) =>
             \A file \in UploadedFiles :
               LacksRequired(file) =>
                 /\ load_session_from_file(SessionRecord, file).report
                      = Error(SESSION_FORMAT_ERROR)
                 /\ FailedRestoreKeeps(load_session_from_file(SessionRecord, file).session)
        /\ reports' = << Error(SESSION_FORMAT_ERROR) >> =>
             /\ messages' = messages
             /\ loaded_documents' = loaded_documents
             /\ selected_model' = selected_model
             /\ total_usage' = total_usage
             /\ load_warnings' = load_warnings
      ]_vars

\* a failed restore over a session that holds documents, messages and usage
C6_Witness ==
    /\ reports = << Error(SESSION_FORMAT_ERROR) >>
    /\ loaded_documents = SavedDocs
    /\ Len(messages) >= 3
    /\ total_usage.total_tokens > 0
    /\ load_warnings # << >>
    /\ uploader_key_counter = 2

(* C7: Empty response commits nothing.  A turn that resolves with an empty *)
(* accumulated response appends no message, leaves the session totals as   *)
(* they were and records no per-turn usage.                                *)
C7_EmptyResponse ==
    [][ (TurnResolves /\ full_response' = "") =>
          /\ messages' = messages
          /\ total_usage' = total_usage
          /\ last_usage_info' = None
          /\ usage_log' = usage_log ]_vars

\* a turn cancelled at its first chunk: nothing accumulated, nothing committed
C7_Witness ==
    /\ outcome = "Cancelled"
    /\ pos = 1
    /\ full_response = ""
    /\ Last(messages).role = "user"
    /\ last_usage_info = None
    /\ ~is_generating

\* the listing holds one file, a non-empty PDF without extractable text
OnlyImagePdf(listing) ==
    /\ Len(listing) = 1
    /\ listing[1].is_file
    /\ listing[1].suffix = ".pdf"
    /\ listing[1].st_size > 0
    /\ _read_pdf(listing[1])[1] = ""

(* C8: Image-only PDF.  The load pass over a directory whose only file is  *)
(* a non-empty PDF without extractable text leaves zero documents and      *)
(* exactly one warning, the scanned-image warning for that file.           *)
C8_ImageOnlyPdf ==
    [][ (pc = "render" /\ app_status = "LOADING"
           /\ folder_path \in DOMAIN FileSystem
           /\ OnlyImagePdf(FileSystem[folder_path])) =>
          /\ loaded_documents' = << >>
          /\ load_warnings' =
               << ScannedImageWarning(FileSystem[folder_path][1].name) >> ]_vars

\* every entry is a supported file with extracted text
AllValidFiles(listing) ==
    \A i \in 1..Len(listing) : ExtractedText(listing[i]) # ""

IndexOf(s, t) ==
    CHOOSE i \in 1..(Len(s) - Len(t) + 1) :
        /\ SubSeq(s, i, i + Len(t) - 1) = t
        /\ \A j \in 1..(i - 1) : SubSeq(s, j, j + Len(t) - 1) # t

EndsWith(s, t) ==
    Len(t) <= Len(s) /\ SubSeq(s, Len(s) - Len(t) + 1, Len(s)) = t

ComposedFrom(prompt, docs, selected, question) ==
    /\ \A i \in 1..Len(docs) :
         Contains(prompt, docs[i].content) <=> docs[i].filename \in selected
    /\ \A i, j \in 1..Len(docs) :
         (i < j /\ docs[i].filename \in selected /\ docs[j].filename \in selected)
            => IndexOf(prompt, docs[i].content) < IndexOf(prompt, docs[j].content)
    /\ EndsWith(prompt, question)

(* C10: Context assembly.  The message list passed to the remote client is *)
(* the stored history with the content of its last message, the user's     *)
(* question, replaced by the composed prompt; the prompt contains the      *)
(* content of every selected document, in document-list order, the content *)
(* of no unselected document, and ends with the question; the stored       *)
(* history is the same after the assembly as before.                       *)
C10_ContextAssembly ==
    [][ TurnDue =>
          /\ messages' = messages
          /\ Last(messages').role = "user"
          /\ api_calls' # << >> =>
               \E sent \in {api_calls'[1]} :
                 /\ Len(sent) = Len(messages)
                 /\ \A i \in 1..(Len(messages) - 1) : sent[i] = messages[i]
                 /\ Last(sent).role = Last(messages).role
                 /\ ComposedFrom(Last(sent).content, loaded_documents,
                                 CurrentSelection, Last(messages).content)
      ]_vars

\* a call made with one of two documents selected
C10_Witness ==
    /\ pc = "streaming"
    /\ Len(api_calls) = 1
    /\ loaded_documents = SavedDocs
    /\ selected_docs = Some({"b.txt"})
    /\ Last(messages).content \in Prompts
    /\ Contains(Last(api_calls[1]).content, "D2")
    /\ ~Contains(Last(api_calls[1]).content, "D1")

\* what a step may change of the session while a turn stays in flight
InFlightKeeps ==
    /\ messages' = messages
    /\ loaded_documents' = loaded_documents
    /\ load_warnings' = load_warnings
    /\ app_status' = app_status
    /\ selected_model' = selected_model
    /\ system_role_defined' = system_role_defined
    /\ total_usage' = total_usage
    /\ uploader_key_counter' = uploader_key_counter

(* C11: Single in-flight generation.  A stream is entered only by a turn   *)
(* that has made no call yet, no prompt ever has more than one call, and   *)
(* the loop runs only while is_generating is set.  From a state with       *)
(* is_generating set, a step either leaves the flag set and then changes   *)
(* neither the history nor the documents, warnings, status, model, usage   *)
(* and uploader counter (no submission, reset, restore or load), or it     *)
(* resolves the turn and then changes the history by at most the appended  *)
(* assistant message.                                                      *)
C11_SingleInFlight ==
    [][ /\ Len(api_calls') <= 1
        /\ (pc' = "streaming" /\ pc # "streaming") =>
             (is_generating /\ api_calls = << >>)
        /\ pc' = "streaming" => is_generating'
        /\ (is_generating /\ is_generating') => InFlightKeeps
        /\ TurnResolves =>
             /\ \/ messages' = messages
                \/ messages' = Append(messages, Msg("assistant", full_response'))
             /\ loaded_documents' = loaded_documents
             /\ load_warnings' = load_warnings
             /\ app_status' = app_status
             /\ selected_model' = selected_model
             /\ uploader_key_counter' = uploader_key_counter
      ]_vars

\* a stream being consumed, the page on display with its widgets
C11_Witness ==
    /\ pc = "streaming"
    /\ is_generating
    /\ pos >= 1
    /\ full_response # ""
    /\ Len(api_calls) = 1
    /\ loaded_documents # << >>
    /\ uploader_key_counter < MaxUploads
    /\ Len(messages) < MaxMessages

\* the step in which a chat turn ends with the remote call failing
TurnFails == TurnResolves /\ outcome' = "Failed"

\* the fragments accumulated when the failure occurs (none before the loop)
FailedFragments == IF pc = "streaming" THEN Fragments(stream, pos) ELSE << >>

\* the failure is reported and the turn has ended
FailureReported ==
    /\ HasReport(reports', Error(RemoteCallFailure))
    /\ ~is_generating'
    /\ ~stop_generation'
    /\ pc' = "render"

\* nothing of the history or the usage is changed
NothingCommitted ==
    /\ messages' = messages
    /\ total_usage' = total_usage
    /\ last_usage_info' = last_usage_info
    /\ usage_log' = usage_log

\* text is appended as one assistant message and counted as the turn's output
PartialCommitted(text) ==
    /\ messages' = Append(messages, Msg("assistant", text))
    /\ \E ok \in BOOLEAN :
         LET usage_info == UsageInfo(input_tokens, get_token_count(text, ok))
         IN  /\ last_usage_info' = Some(usage_info)
             /\ total_usage' = AddUsage(total_usage, usage_info)

(* C12 as stated: a failure after k fragments is reported and ends the     *)
(* turn; with k = 0 the history is not changed, with k >= 1 the partial    *)
(* text is appended as an assistant message and counted in the usage.      *)
C12_Original ==
    [][ TurnFails =>
          /\ FailureReported
          /\ Len(FailedFragments) = 0 => NothingCommitted
          /\ Len(FailedFragments) >= 1 => PartialCommitted(Concat(FailedFragments))
      ]_vars

(* C12 amended: a failure after k fragments is reported and ends the turn; *)
(* when the text of the k fragments is empty (k = 0, or every fragment     *)
(* empty) the history and the usage are not changed, otherwise the partial *)
(* text is appended as one assistant message and counted in the usage, as  *)
(* on cancellation.                                                        *)
C12_FailureCommit ==
    [][ TurnFails =>
          /\ FailureReported
          /\ full_response' = Concat(FailedFragments)
          /\ Concat(FailedFragments) = "" => NothingCommitted
          /\ Concat(FailedFragments) # "" => PartialCommitted(Concat(FailedFragments))
      ]_vars

\* the stream failed after "Hel" and "lo"; "Hello" was committed and counted
C12_Witness ==
    /\ outcome = "Failed"
    /\ pc = "render"
    /\ pos = 2
    /\ Fragments(stream, pos) = << "Hel", "lo" >>
    /\ Last(messages) = Msg("assistant", "Hello")
    /\ last_usage_info # None
    /\ last_usage_info[1].input_tokens = input_tokens
    /\ HasReport(reports, Error(RemoteCallFailure))
    /\ ~is_generating

\* the run that performs the load pass
LoadPassDue == pc = "render" /\ app_status = "LOADING"

(* C13: Load-pass failure isolation.  Every load pass ends with a          *)
(* (documents, warnings) pair: load_documents raises nothing, the session  *)
(* becomes READY with the pair it returned, no exception is shown, and     *)
(* every supported file of the directory with extracted text has its       *)
(* document whatever happened to the files before it.                      *)
C13_LoadIsolation ==
    [][ LoadPassDue =>
          LET r == load_documents(FileSystem, folder_path)
          IN  /\ r.raised = ""
              /\ app_status' = "READY"
              /\ \A i \in 1..Len(reports') : reports'[i].kind # "exception"
              /\ load_warnings' = RetainDocuments(r.documents, r.warnings).load_warnings
              /\ loaded_documents' = RetainDocuments(r.documents, r.warnings).loaded_documents
              /\ folder_path \in DOMAIN FileSystem =>
                   \A i \in 1..Len(FileSystem[folder_path]) :
                     ExtractedText(FileSystem[folder_path][i]) # "" =>
                       DocumentsOf(r.documents, FileSystem[folder_path][i].name) # << >>
      ]_vars

\* a file of no bytes: nothing to open as a PDF or a Word file, "" as text
ZeroByteFile(name, suffix) ==
    [name |-> name, suffix |-> suffix, is_file |-> TRUE, st_size |-> 0,
     opens |-> suffix \notin {".pdf", ".docx"}, parts |-> << >>,
     decoded |-> [e \in DOMAIN NoDecode |-> Some("")]]

\* no document of docs and no warning of warnings is about the file name
NothingAbout(name, docs, warnings) ==
    /\ DocumentsOf(docs, name) = << >>
    /\ \A i \in 1..Len(warnings) : ~Contains(warnings[i], name)

\* the listing is one zero-byte file of a supported extension
OnlyZeroByteFile(listing) ==
    /\ Len(listing) = 1
    /\ listing[1].is_file
    /\ listing[1].suffix \in supported_extensions
    /\ listing[1].st_size = 0

(* C14: Zero-byte file.  The load pass over a directory whose only entry   *)
(* is a zero-byte file of a supported extension ends READY with no         *)
(* document and no warning that names the file; load_documents returns     *)
(* the same for a zero-byte file of each supported extension.              *)
C14_ZeroByteFile ==
    [][ (LoadPassDue /\ folder_path \in DOMAIN FileSystem
           /\ OnlyZeroByteFile(FileSystem[folder_path])) =>
          /\ app_status' = "READY"
          /\ loaded_documents' = << >>
          /\ NothingAbout(FileSystem[folder_path][1].name,
                          loaded_documents', load_warnings')
          /\ \A suffix \in supported_extensions :
               LET r == load_documents(
                          [zero |-> << ZeroByteFile("z" \o suffix, suffix) >>], "zero")
               IN  /\ r.raised = ""
                   /\ r.documents = << >>
                   /\ NothingAbout("z" \o suffix, r.documents, r.warnings)
      ]_vars

\* the pass over the directory holding zero.txt has ended
C14_Witness ==
    /\ app_status = "READY"
    /\ folder_path \in DOMAIN FileSystem
    /\ OnlyZeroByteFile(FileSystem[folder_path])
    /\ loaded_documents = << >>
    /\ load_warnings = << NothingFoundWarning >>
    /\ reports = << >>

(* C15 as stated: a chat turn that ends Failed appends no assistant        *)
(* message; partial text is discarded from the history.                    *)
C15_Original ==
    [][ TurnFails => messages' = messages ]_vars

(* C15 amended: a chat turn that ends Failed keeps the partial text that   *)
(* was displayed: when it is not empty, exactly one assistant message      *)
(* holding it is appended to the history; no assistant message is          *)
(* appended only when no text was accumulated before the failure.          *)
C15_FailedTurnHistory ==
    [][ TurnFails =>
          /\ full_response' = full_response
          /\ full_response # "" =>
               /\ Len(messages') = Len(messages) + 1
               /\ Last(messages') = Msg("assistant", full_response)
               /\ SubSeq(messages', 1, Len(messages)) = messages
          /\ full_response = "" => messages' = messages
      ]_vars

\* a turn failed after "Hel" was displayed, and the history ends with it
C15_Witness ==
    /\ outcome = "Failed"
    /\ full_response = "Hel"
    /\ pos = 1
    /\ Len(messages) >= 3
    /\ Last(messages) = Msg("assistant", "Hel")
    /\ messages[Len(messages) - 1].role = "user"

TurnOutcomes == {"BudgetExceeded", "Completed", "Cancelled", "Failed"}

\* the turn is over and the page accepts a new prompt
BackToIdle ==
    /\ pc = "idle"
    /\ ChatRendered
    /\ ~is_generating
    /\ ~stop_generation
    /\ ~disabled(is_generating)

(* C16: Turn resolution.  With a finite stream and a script run that goes  *)
(* on until it ends, every turn that has been submitted (is_generating     *)
(* set) resolves: the step that clears is_generating records exactly one   *)
(* of the four outcomes and leaves both flags false, an outcome is         *)
(* recorded by no other step, and the page then waits with the chat input  *)
(* enabled.                                                                *)
C16_TurnResolution ==
    /\ [][ /\ TurnResolves =>
                /\ outcome' \in TurnOutcomes
                /\ outcome \notin TurnOutcomes
                /\ ~stop_generation'
           /\ (outcome' \in TurnOutcomes /\ outcome' # outcome) => TurnResolves
         ]_vars
    /\ is_generating ~> BackToIdle

\* a cancelled turn has resolved with its text committed; the page waits
C16_Witness ==
    /\ BackToIdle
    /\ Len(messages) >= 3
    /\ Last(messages).role = "assistant"
    /\ last_usage_info # None

Supported(file) == file.is_file /\ file.suffix \in supported_extensions

\* the for loop of load_documents over a listing, before the final test
Processed(listing) ==
    IterDir(listing, [raised |-> "", documents |-> << >>, warnings |-> << >>])

(* C18: Loader outcomes.  A load pass on a path that is no directory       *)
(* leaves no document and exactly the InvalidFolder warning.  On a         *)
(* directory, the 'nothing found' warning is among the warnings exactly    *)
(* when the loop went through all files and produced no document and no    *)
(* warning, and it is then the only warning; an entry that is no supported *)
(* file has no document and no warning, and the result is the same as for  *)
(* the listing without such entries.                                       *)
C18_LoaderOutcomes ==
    [][ LoadPassDue =>
          IF folder_path \notin DOMAIN FileSystem
            THEN /\ loaded_documents' = << >>
                 /\ load_warnings' = << InvalidFolderWarning(folder_path) >>
                 /\ load_documents(FileSystem, folder_path).raised = ""
            ELSE LET listing == FileSystem[folder_path]
                     p == Processed(listing)
                 IN  /\ HasReport(load_warnings', NothingFoundWarning)
                          <=> (p.raised = "" /\ p.documents = << >> /\ p.warnings = << >>)
                     /\ HasReport(load_warnings', NothingFoundWarning) =>
                          (load_warnings' = << NothingFoundWarning >>
                             /\ loaded_documents' = << >>)
                     /\ \A i \in 1..Len(listing) :
                          ~Supported(listing[i]) =>
                             NothingAbout(listing[i].name, loaded_documents',
                                          load_warnings')
                     /\ load_documents([d |-> SelectSeq(listing, Supported)], "d")
                          = load_documents([d |-> listing], "d")
      ]_vars

\* the pass over a directory with an unsupported file, a subdirectory and
\* two files without text: two warnings, none about the first two entries
C18_Witness ==
    /\ app_status = "READY"
    /\ folder_path \in DOMAIN FileSystem
    /\ \E i \in 1..Len(FileSystem[folder_path]) : ~Supported(FileSystem[folder_path][i])
    /\ loaded_documents = << >>
    /\ Len(load_warnings) = 2
    /\ ~HasReport(load_warnings, NothingFoundWarning)

\* ceil(n / 4)
CeilQuarter(n) == (n + 3) \div 4

(* C19: Tokenizer fallback.  The output count a committed turn records is  *)
(* the tokenizer's count of the response or, when tokenization failed,     *)
(* ceil(len / 4) of it (1 for 1 to 4 characters, 2 for 5).                 *)
C19_TokenizerFallback ==
    [][ (TurnResolves /\ full_response' # "") =>
          /\ last_usage_info' # None
          /\ last_usage_info'[1].output_tokens
               \in { get_token_count(full_response', TRUE),
                     CeilQuarter(Len(full_response')) }
      ]_vars

C21_GeneratingSession ==
    is_generating =>
        /\ app_status = "READY"
        /\ system_role_defined
        /\ messages # << >>
        /\ Last(messages).role = "user"

\* a turn streaming after two uploads, in a session holding restored documents
C21_Witness ==
    /\ is_generating
    /\ pc = "streaming"
    /\ pos >= 1
    /\ uploader_key_counter = 2
    /\ loaded_documents = SavedDocs
    /\ Len(messages) >= 4
    /\ Last(messages).role = "user"

\* the text of the file is not empty and sanitization takes characters from it
SanitizationRemoves(file) ==
    /\ ExtractedText(file) # ""
    /\ _sanitize_text(ExtractedText(file)) # ExtractedText(file)

=============================================================================
